---------------------------- MODULE Spec2Model ----------------------------
(***************************************************************************)
(* A model of kinisi's PymatgenParser (src/kinisi/parser.py) and of the    *)
(* DiffAnalyzer / MSDAnalyzer constructors (src/kinisi/analyze.py), with   *)
(* the DiffusionAnalyzer of src/kinisi/diffusion_analyzer.py.              *)
(*                                                                         *)
(* Floating-point values are modelled as exact rationals [n, d] in lowest  *)
(* terms with d > 0; the record with d = 0 is numpy's nan (the mean of an  *)
(* empty slice).  The inputs are dyadic, so the code's float arithmetic on *)
(* them is exact except for a division by a count that is no power of two. *)
(***************************************************************************)
EXTENDS Integers, Sequences, FiniteSets

VARIABLES
    structures,       \* the list of pymatgen structures given to __init__
    specie,           \* the mobile specie's symbol
    time_step,        \* self.time_step
    step_skip,        \* self.step_skip
    min_obs,          \* __init__'s min_obs
    indices,          \* self.indices (0-based site indices of the mobile atoms)
    disp,             \* __init__'s disp[site][frame][axis]
    drift_corrected,  \* __init__'s drift_corrected[site][frame][axis]
    nsteps,           \* __init__'s nsteps
    timesteps,        \* __init__'s timesteps
    assigned,         \* the attributes set on self so far
    delta_t,          \* self.delta_t
    msd,              \* self.msd
    sq_disp_store,    \* self.sq_disp_store
    disp_store,       \* self.disp_store
    pc,               \* the position in PymatgenParser.__init__
    err,              \* the exception that ended the constructor ("" for none)
    called,           \* the functions that have been entered
    an                \* the analyzer object under construction (analyze.py)

vars == <<structures, specie, time_step, step_skip, min_obs, indices, disp,
          drift_corrected, nsteps, timesteps, assigned, delta_t, msd,
          sq_disp_store, disp_store, pc, err, called, an>>

-----------------------------------------------------------------------------
(* Bounds of the model *)

MaxNsteps == 410
MaxMobile == 2
MaxMinObs == 2
MaxFrames == 3
MaxAtoms == 2

(* The divisor of the smoothing step, parser.py line 116 *)
SmoothPoints == 200
(* The real-time period that sets min_dt, parser.py line 109 *)
MinPeriod == 1000

-----------------------------------------------------------------------------
(* Exact arithmetic standing for numpy's float64 *)

Abs(i) == IF i < 0 THEN -i ELSE i

Min(a, b) == IF a <= b THEN a ELSE b

Max(a, b) == IF a >= b THEN a ELSE b

RECURSIVE GCD(_, _)
GCD(a, b) == IF b = 0 THEN a ELSE GCD(b, a % b)

NaN == [n |-> 0, d |-> 0]

IsNaN(x) == x.d = 0

Rat(n, d) ==
    IF d = 0 THEN NaN
    ELSE LET s == IF d < 0 THEN -1 ELSE 1
             g == GCD(Abs(n), Abs(d))
         IN  [n |-> (s * n) \div g, d |-> (s * d) \div g]

RInt(i) == [n |-> i, d |-> 1]

Zero == RInt(0)

RAdd(x, y) == IF IsNaN(x) \/ IsNaN(y) THEN NaN
              ELSE Rat(x.n * y.d + y.n * x.d, x.d * y.d)

RSub(x, y) == IF IsNaN(x) \/ IsNaN(y) THEN NaN
              ELSE Rat(x.n * y.d - y.n * x.d, x.d * y.d)

RMul(x, y) == IF IsNaN(x) \/ IsNaN(y) THEN NaN
              ELSE Rat(x.n * y.n, x.d * y.d)

(* x < y and x <= y on numbers that are not nan *)
RLt(x, y) == x.n * y.d < y.n * x.d

RLe(x, y) == x.n * y.d <= y.n * x.d

RECURSIVE RSum(_)
RSum(s) == IF s = <<>> THEN Zero ELSE RAdd(Head(s), RSum(Tail(s)))

(* numpy's mean of a slice: nan (with a RuntimeWarning) when it is empty *)
RMean(s) == IF s = <<>> THEN NaN
            ELSE LET t == RSum(s)
                 IN  IF IsNaN(t) THEN NaN ELSE Rat(t.n, t.d * Len(s))

(* Rounding with a half always rounded up: floor(x + 1/2) *)
np_round_half_up(x) ==
    IF IsNaN(x) THEN NaN ELSE RInt((2 * x.n + x.d) \div (2 * x.d))

(* np.round: to the nearest integer, a half to the even neighbour *)
np_round(x) ==
    IF IsNaN(x) THEN NaN
    ELSE LET fl == x.n \div x.d
             r2 == 2 * (x.n - fl * x.d)
         IN  IF r2 < x.d THEN RInt(fl)
             ELSE IF r2 > x.d THEN RInt(fl + 1)
             ELSE IF fl % 2 = 0 THEN RInt(fl) ELSE RInt(fl + 1)

(* Python's int(a / b) for positive ints a, b of this size: the float quotient
   truncated, which is the floor *)
IntDiv(a, b) == a \div b

-----------------------------------------------------------------------------
(* PymatgenParser.smoothed_timesteps *)

(* np.arange with the stop value included *)
np_arange_closed(start, stop, step) ==
    LET cnt == IF stop < start THEN 0 ELSE (stop - start) \div step + 1
    IN  [k \in 1..cnt |-> start + (k - 1) * step]

(* np.arange(start, stop, step) for integers, step >= 1 *)
np_arange(start, stop, step) ==
    LET cnt == IF stop <= start THEN 0 ELSE (stop - start + step - 1) \div step
    IN  [k \in 1..cnt |-> start + (k - 1) * step]

min_dt_of(ss, ts) == IntDiv(MinPeriod, ss * ts)

max_dt_of(nmobile, ns, mo) == Min((nmobile * ns) \div mo, ns)

(* The step without the smoothing: every frame offset *)
smooth_step_unit(lo, hi) == 1

smooth_step(lo, hi) == Max(IntDiv(hi - lo, SmoothPoints), 1)

(* The guard as min_dt > max_dt *)
smoothed_timesteps_gt(nmobile, ts, ss, ns, mo) ==
    LET lo == min_dt_of(ss, ts)
        hi == max_dt_of(nmobile, ns, mo)
    IN  IF lo > hi
        THEN [raised |-> TRUE, timesteps |-> <<>>]
        ELSE [raised |-> FALSE,
              timesteps |-> np_arange(lo, hi, smooth_step(lo, hi))]

(* The result of self.smoothed_timesteps(ns, mo) on a parser with nmobile
   mobile indices: raised, or the timesteps *)
smoothed_timesteps(nmobile, ts, ss, ns, mo) ==
    LET lo == min_dt_of(ss, ts)
        hi == max_dt_of(nmobile, ns, mo)
    IN  IF lo >= hi
        THEN [raised |-> TRUE, timesteps |-> <<>>]
        ELSE [raised |-> FALSE,
              timesteps |-> np_arange(lo, hi, smooth_step(lo, hi))]


-----------------------------------------------------------------------------
(* Vectors, matrices and arrays *)

Axes == 1..3

VSub(u, v) == [x \in Axes |-> RSub(u[x], v[x])]

VAdd(u, v) == [x \in Axes |-> RAdd(u[x], v[x])]

VZero == [x \in Axes |-> Zero]

(* np.dot(d, m) of a 3-vector and a 3x3 matrix: sum over i of d[i] * m[i][j] *)
np_dot(d, m) == [j \in Axes |-> RSum([i \in Axes |-> RMul(d[i], m[i][j])])]

(* np.sum(v, axis=2) of one [axis] entry *)
SumAxes(v) == RSum([x \in Axes |-> v[x]])

(* The number of sites and of frames of an array [site][frame][axis] *)
NSites(arr) == Len(arr)

NFrames(arr) == IF arr = <<>> THEN 0 ELSE Len(arr[1])

-----------------------------------------------------------------------------
(* _get_structure_and_disp *)

(* coords after coords.insert(0, coords[0]) and np.concatenate(axis=1):
   coords[a][k], k = 1..n+1, frame 0 twice *)
coords_of(S) ==
    [a \in 1..Len(S[1].frac_coords) |->
        [k \in 1..(Len(S) + 1) |->
            IF k = 1 THEN S[1].frac_coords[a] ELSE S[k - 1].frac_coords[a]]]

(* d_coords = coords[:, 1:] - coords[:, :-1] *)
raw_d_coords(S) ==
    LET c == coords_of(S)
    IN  [a \in 1..Len(c) |-> [k \in 1..Len(S) |-> VSub(c[a][k + 1], c[a][k])]]

(* One delta wrapped: d - np.round(d) *)
wrap(d) == RSub(d, np_round(d))

(* d_coords = d_coords - np.round(d_coords) *)
d_coords(S) ==
    LET r == raw_d_coords(S)
    IN  [a \in 1..Len(r) |-> [k \in 1..Len(S) |-> [x \in Axes |-> wrap(r[a][k][x])]]]

RECURSIVE CumSum(_, _)
CumSum(row, k) == IF k = 1 THEN row[1] ELSE VAdd(CumSum(row, k - 1), row[k])

(* f_disp = np.cumsum(d_coords, axis=1) *)
f_disp(S) ==
    LET d == d_coords(S)
    IN  [a \in 1..Len(d) |-> [k \in 1..Len(S) |-> CumSum(d[a], k)]]

(* Frame 0's matrix for every frame when the first and last are equal *)
latt_for_constant(S, k) ==
    IF S[1].lattice = S[Len(S)].lattice THEN S[1].lattice ELSE S[k].lattice

(* latt[1:] after latt.insert(0, latt[0]): the matrix zip() pairs with the
   k-th cumulative displacement *)
latt_for(S, k) == S[k].lattice

(* disp = np.array(c_disp), c_disp[a] = [np.dot(d, m) for d, m in zip(i, latt[1:])] *)
get_structure_and_disp(S) ==
    LET f == f_disp(S)
    IN  [a \in 1..Len(f) |-> [k \in 1..Len(S) |-> np_dot(f[a][k], latt_for(S, k))]]

-----------------------------------------------------------------------------
(* PymatgenParser.correct_for_drift *)

RECURSIVE SelectIdx(_, _, _, _)
(* The 0-based indices i >= from of the sites whose symbol is sp (mobile) or
   is not sp (not mobile), in site order: the loop of lines 82-86 *)
SelectIdx(species, from, sp, mobile) ==
    IF from > Len(species) THEN <<>>
    ELSE (IF (species[from] = sp) = mobile THEN <<from - 1>> ELSE <<>>)
         \o SelectIdx(species, from + 1, sp, mobile)

mobile_indices(structure, sp) == SelectIdx(structure.species, 1, sp, TRUE)

framework_indices(structure, sp) == SelectIdx(structure.species, 1, sp, FALSE)

(* The mean over every site, mobile ones included *)
framework_average_all(fw, arr) ==
    [k \in 1..NFrames(arr) |->
        [x \in Axes |-> RMean([a \in 1..NSites(arr) |-> arr[a][k][x]])]]

(* np.average(framework_disp, axis=0): per frame and axis, the mean over the
   framework sites *)
framework_average(fw, arr) ==
    [k \in 1..NFrames(arr) |->
        [x \in Axes |-> RMean([j \in 1..Len(fw) |-> arr[fw[j] + 1][k][x]])]]

(* disp - np.average(framework_disp, axis=0)[None, :, :] *)
subtract_drift(arr, avg) ==
    [a \in 1..NSites(arr) |-> [k \in 1..NFrames(arr) |-> VSub(arr[a][k], avg[k])]]

correct_for_drift(structure, arr, sp) ==
    subtract_drift(arr, framework_average(framework_indices(structure, sp), arr))

-----------------------------------------------------------------------------
(* PymatgenParser.get_disps *)

(* The lengths of drift_corrected[:, t:, :] and drift_corrected[:, :-t, :] *)
hi_len(T, t) == Max(T - t, 0)

lo_len(T, t) == IF t = 0 THEN 0 ELSE Max(T - t, 0)

(* numpy's broadcast of two lengths on one axis: -1 when they do not match *)
broadcast_len(m, n) ==
    IF m = n THEN m ELSE IF m = 1 THEN n ELSE IF n = 1 THEN m ELSE -1

(* np.subtract(dc[:, t:, :], dc[:, :-t, :]): [site][origin][axis] *)
interval_disp(dc, t) ==
    LET T == NFrames(dc)
        n == broadcast_len(hi_len(T, t), lo_len(T, t))
    IN  [a \in 1..NSites(dc) |-> [j \in 1..n |-> VSub(dc[a][t + j], dc[a][j])]]

interval_raises(dc, t) ==
    broadcast_len(hi_len(NFrames(dc), t), lo_len(NFrames(dc), t)) = -1

(* np.sum(disp, axis=2)[self.indices] *)
disp_entry(dc, t, idx) ==
    LET d == interval_disp(dc, t)
    IN  [m \in 1..Len(idx) |->
            [j \in 1..Len(d[idx[m] + 1]) |-> SumAxes(d[idx[m] + 1][j])]]

(* np.sum(disp ** 2, axis=2)[self.indices] *)
sq_disp_entry(dc, t, idx) ==
    LET d == interval_disp(dc, t)
    IN  [m \in 1..Len(idx) |->
            [j \in 1..Len(d[idx[m] + 1]) |->
                SumAxes([x \in Axes |-> RMul(d[idx[m] + 1][j][x], d[idx[m] + 1][j][x])])]]

(* sq_disp_ions[:, i] = np.average(np.sum(sq_disp, axis=2), axis=1) *)
sq_disp_ions(dc, t) ==
    LET d == interval_disp(dc, t)
    IN  [a \in 1..NSites(dc) |->
            RMean([j \in 1..Len(d[a]) |->
                SumAxes([x \in Axes |-> RMul(d[a][j][x], d[a][j][x])])])]

(* msd[i] = np.average(sq_disp_ions[:, i][self.indices]) *)
msd_entry(dc, t, idx) ==
    LET ions == sq_disp_ions(dc, t)
    IN  RMean([m \in 1..Len(idx) |-> ions[idx[m] + 1]])

get_disps(ts, dc, idx, tstep, sskip) ==
    IF \E i \in 1..Len(ts) : interval_raises(dc, ts[i])
    THEN [raised |-> TRUE, delta_t |-> <<>>, msd |-> <<>>,
          sq_disp_store |-> <<>>, disp_store |-> <<>>]
    ELSE [raised |-> FALSE,
          delta_t |-> [i \in 1..Len(ts) |-> ts[i] * tstep * sskip],
          msd |-> [i \in 1..Len(ts) |-> msd_entry(dc, ts[i], idx)],
          sq_disp_store |-> [i \in 1..Len(ts) |-> sq_disp_entry(dc, ts[i], idx)],
          disp_store |-> [i \in 1..Len(ts) |-> disp_entry(dc, ts[i], idx)]]

-----------------------------------------------------------------------------
(* The inputs the model draws *)

Symbols == {"Li", "O"}

(* Fractional coordinates are given in quarters *)
Quarters(v) == [x \in Axes |-> Rat(v[x], 4)]

(* How a site moves from frame to frame: not at all, by v every frame, or
   to v and back *)
Paths == { [kind |-> "still", v |-> <<0, 0, 0>>],
           [kind |-> "drift", v |-> <<1, 6, 10>>],
           [kind |-> "hop",   v |-> <<-2, -1, 3>>] }

frac_at(path, k) ==
    IF path.kind = "drift" THEN Quarters([x \in Axes |-> k * path.v[x]])
    ELSE IF path.kind = "hop" THEN Quarters([x \in Axes |-> (k % 2) * path.v[x]])
    ELSE Quarters(<<0, 0, 0>>)

RatMatrix(m) == [i \in Axes |-> [j \in Axes |-> RInt(m[i][j])]]

LattA == RatMatrix(<<<<1, 0, 0>>, <<0, 1, 0>>, <<0, 0, 1>>>>)

LattB == RatMatrix(<<<<2, 0, 0>>, <<1, 2, 0>>, <<0, 0, 3>>>>)

Lattices == {LattA, LattB}

(* (time_step, step_skip) of the parser runs: min_dt = 1000, 2, 1, 0 *)
TimeParams == {<<1, 1>>, <<250, 2>>, <<500, 2>>, <<1001, 1>>}

MinObsChoices == {1, 2}

(* time_step and step_skip of the direct calls of smoothed_timesteps:
   min_dt = 1000, 500, 250, 125, 4, 2, 1, 0 *)
StepTimeSteps == {1, 2, 250, 1001}

StepSkips == {1, 2, 4}

MakeStructures(nf, sp, ph, lt) ==
    [k \in 1..nf |->
        [species |-> sp,
         frac_coords |-> [a \in 1..Len(sp) |-> frac_at(ph[a], k - 1)],
         lattice |-> lt[k]]]

NoAnalyzer == [kind |-> "none"]

-----------------------------------------------------------------------------
(* PymatgenParser.__init__ *)

NotEnoughData == "ValueError: Not enough data to calculate diffusivity"

(* Lines 50-52 have run: time_step, step_skip and indices = [] are set *)
ParserStart(S, tp, mo) ==
    /\ structures = S
    /\ specie = "Li"
    /\ time_step = tp[1]
    /\ step_skip = tp[2]
    /\ min_obs = mo
    /\ indices = <<>>
    /\ disp = <<>>
    /\ drift_corrected = <<>>
    /\ nsteps = 0
    /\ timesteps = <<>>
    /\ assigned = {"time_step", "step_skip", "indices"}
    /\ delta_t = <<>>
    /\ msd = <<>>
    /\ sq_disp_store = <<>>
    /\ disp_store = <<>>
    /\ pc = "init"
    /\ err = ""
    /\ called = {}
    /\ an = NoAnalyzer

(* The whole constructor, on runs whose lattice does not change *)
InitParser ==
    \E nf \in 0..MaxFrames, na \in 1..MaxAtoms :
      \E sp \in [1..na -> Symbols], ph \in [1..na -> Paths], L \in Lattices,
         tp \in TimeParams, mo \in MinObsChoices :
        ParserStart(MakeStructures(nf, sp, ph, [k \in 1..nf |-> L]), tp, mo)

(* The displacement builder and the drift correction, on runs whose lattice
   may change from frame to frame *)
InitDisp ==
    \E nf \in 0..MaxFrames, na \in 1..MaxAtoms :
      \E sp \in [1..na -> Symbols], ph \in [1..na -> Paths],
         lt \in [1..nf -> Lattices] :
        ParserStart(MakeStructures(nf, sp, ph, lt), <<500, 2>>, 1)

(* Line 54: structure, disp = _get_structure_and_disp(structures); coords[0]
   of no structures is an IndexError *)
GetStructureAndDisp ==
    /\ pc = "init"
    /\ called' = called \cup {"_get_structure_and_disp"}
    /\ IF structures = <<>>
       THEN /\ pc' = "failed"
            /\ err' = "IndexError: list index out of range"
            /\ disp' = disp
       ELSE /\ pc' = "disp"
            /\ err' = err
            /\ disp' = get_structure_and_disp(structures)
    /\ UNCHANGED <<structures, specie, time_step, step_skip, min_obs, indices,
                   drift_corrected, nsteps, timesteps, assigned, delta_t, msd,
                   sq_disp_store, disp_store, an>>

(* Lines 56-58: drift_corrected = self.correct_for_drift(structure, disp,
   specie); nsteps = drift_corrected.shape[1] *)
CorrectForDrift ==
    /\ pc = "disp"
    /\ called' = called \cup {"correct_for_drift"}
    /\ indices' = indices \o mobile_indices(structures[1], specie)
    /\ drift_corrected' = correct_for_drift(structures[1], disp, specie)
    /\ nsteps' = NFrames(drift_corrected')
    /\ pc' = "drift"
    /\ UNCHANGED <<structures, specie, time_step, step_skip, min_obs, disp,
                   timesteps, assigned, delta_t, msd, sq_disp_store,
                   disp_store, err, an>>

(* Line 60: timesteps = self.smoothed_timesteps(nsteps, min_obs) *)
SmoothedTimesteps ==
    /\ pc = "drift"
    /\ called' = called \cup {"smoothed_timesteps"}
    /\ LET r == smoothed_timesteps(Len(indices), time_step, step_skip,
                                   nsteps, min_obs)
       IN  IF r.raised
           THEN /\ pc' = "failed"
                /\ err' = NotEnoughData
                /\ timesteps' = timesteps
           ELSE /\ pc' = "steps"
                /\ err' = err
                /\ timesteps' = r.timesteps
    /\ UNCHANGED <<structures, specie, time_step, step_skip, min_obs, indices,
                   disp, drift_corrected, nsteps, assigned, delta_t, msd,
                   sq_disp_store, disp_store, an>>

(* Lines 62-65: self.delta_t, self.msd, self.sq_disp_store, self.disp_store =
   self.get_disps(timesteps, drift_corrected) *)
GetDisps ==
    /\ pc = "steps"
    /\ called' = called \cup {"get_disps"}
    /\ LET r == get_disps(timesteps, drift_corrected, indices, time_step,
                          step_skip)
       IN  IF r.raised
           THEN /\ pc' = "failed"
                /\ err' = "ValueError: operands could not be broadcast together"
                /\ UNCHANGED <<assigned, delta_t, msd, sq_disp_store, disp_store>>
           ELSE /\ pc' = "done"
                /\ err' = err
                /\ assigned' = assigned \cup
                      {"delta_t", "msd", "sq_disp_store", "disp_store"}
                /\ delta_t' = r.delta_t
                /\ msd' = r.msd
                /\ sq_disp_store' = r.sq_disp_store
                /\ disp_store' = r.disp_store
    /\ UNCHANGED <<structures, specie, time_step, step_skip, min_obs, indices,
                   disp, drift_corrected, nsteps, timesteps, an>>

Next == GetStructureAndDisp \/ CorrectForDrift \/ SmoothedTimesteps \/ GetDisps

Init == InitParser

Spec == Init /\ [][Next]_vars

NextDisp == GetStructureAndDisp \/ CorrectForDrift

SpecDisp == InitDisp /\ [][NextDisp]_vars

-----------------------------------------------------------------------------
(* smoothed_timesteps called on a parser whose indices hold nm mobile sites *)

InitSteps ==
    \E nm \in 0..MaxMobile, ns \in 0..MaxNsteps, ts \in StepTimeSteps,
       ss \in StepSkips, mo \in 1..MaxMinObs :
        /\ structures = <<>>
        /\ specie = "Li"
        /\ time_step = ts
        /\ step_skip = ss
        /\ min_obs = mo
        /\ indices = [i \in 1..nm |-> i - 1]
        /\ disp = <<>>
        /\ drift_corrected = <<>>
        /\ nsteps = ns
        /\ timesteps = <<>>
        /\ assigned = {"time_step", "step_skip", "indices"}
        /\ delta_t = <<>>
        /\ msd = <<>>
        /\ sq_disp_store = <<>>
        /\ disp_store = <<>>
        /\ pc = "drift"
        /\ err = ""
        /\ called = {}
        /\ an = NoAnalyzer

NextSteps == SmoothedTimesteps

SpecSteps == InitSteps /\ [][NextSteps]_vars

-----------------------------------------------------------------------------
(* The interval bounds as parser.py lines 109-110 state them, written out
   from the inputs *)

StatedMinDt == MinPeriod \div (step_skip * time_step)

StatedMaxDt == Min((Len(indices) * nsteps) \div min_obs, nsteps)

StatedStep == Max(1, (StatedMaxDt - StatedMinDt) \div SmoothPoints)

Returned == pc = "steps"

(* C1: every interval smoothed_timesteps returns is an integer >= 1 and <=
   nsteps, and the sequence is strictly increasing.  (Stated as the claim
   has it; the code returns the interval 0 when step_skip * time_step
   exceeds 1000.) *)
C1_IntervalsPositive ==
    Returned =>
        /\ \A i \in 1..Len(timesteps) : 1 <= timesteps[i] /\ timesteps[i] <= nsteps
        /\ \A i \in 1..(Len(timesteps) - 1) : timesteps[i] < timesteps[i + 1]

(* C3, as stated: smoothed_timesteps returns at most 200 intervals *)
C3_AtMost200 == Returned => Len(timesteps) <= SmoothPoints

(* C3, amended: smoothed_timesteps returns fewer than 400 intervals (at most
   2 * 200 - 1), whatever nsteps, min_obs and the number of mobile atoms *)
C3_AtMost399 == Returned => Len(timesteps) <= 2 * SmoothPoints - 1

C3_Witness == Returned /\ Len(timesteps) = 2 * SmoothPoints - 1

(* C4, as stated: the sequence runs from min_dt to max_dt, first element
   min_dt, last element max_dt, consecutive elements max(1, (max_dt -
   min_dt) / 200) apart *)
C4_EndsAtMaxDt ==
    Returned =>
        /\ timesteps[1] = StatedMinDt
        /\ timesteps[Len(timesteps)] = StatedMaxDt
        /\ \A i \in 1..(Len(timesteps) - 1) :
              timesteps[i + 1] - timesteps[i] = StatedStep

(* C4, amended: the sequence starts at min_dt, consecutive elements are
   max(1, floor((max_dt - min_dt) / 200)) apart, and it stops short of
   max_dt: its last element is the largest such value strictly below max_dt *)
C4_StopsBelowMaxDt ==
    Returned =>
        /\ Len(timesteps) >= 1
        /\ timesteps[1] = StatedMinDt
        /\ timesteps[Len(timesteps)] < StatedMaxDt
        /\ timesteps[Len(timesteps)] + StatedStep >= StatedMaxDt
        /\ \A i \in 1..(Len(timesteps) - 1) :
              timesteps[i + 1] - timesteps[i] = StatedStep

C4_Witness ==
    /\ Returned
    /\ Len(timesteps) >= 2
    /\ timesteps[2] - timesteps[1] = 2
    /\ timesteps[Len(timesteps)] + 1 < StatedMaxDt

-----------------------------------------------------------------------------
(* The sites of the first structure, read from the input *)

Sites == IF structures = <<>> THEN {} ELSE 1..Len(structures[1].species)

MobileSites == {a \in Sites : structures[1].species[a] = specie}

FrameworkSites == Sites \ MobileSites

Frames == 1..Len(structures)

Entered(f) == f \in called

Half == Rat(1, 2)

(* C2: whenever min_dt >= max_dt, smoothed_timesteps raises the not-enough-data
   error, the constructor ends there, get_disps is never entered and neither
   delta_t nor msd is set; a sequence is returned only when min_dt < max_dt;
   100 frames, 1 mobile atom, time_step = step_skip = 1 and min_obs = 5 raise *)
C2_InsufficientDataAborts ==
    /\ Entered("smoothed_timesteps") =>
          /\ StatedMinDt >= StatedMaxDt =>
                /\ pc = "failed"
                /\ err = NotEnoughData
                /\ timesteps = <<>>
                /\ ~Entered("get_disps")
                /\ assigned \cap {"delta_t", "msd"} = {}
          /\ (pc \in {"steps", "done"} \/ Entered("get_disps")) =>
                StatedMinDt < StatedMaxDt
    /\ smoothed_timesteps(1, 1, 1, 100, 5).raised

C2_Witness ==
    /\ pc = "failed"
    /\ err = NotEnoughData
    /\ Len(structures) >= 2
    /\ MobileSites # {}
    /\ StatedMinDt = StatedMaxDt

(* C5: with fewer than 2 structures, or with no site of the mobile specie,
   the constructor fails and sets neither delta_t nor msd.  (Stated as the
   claim has it; with one structure and step_skip * time_step > 1000 the
   code finishes and sets msd = [nan].) *)
C5_TooFewFramesOrNoMobileFails ==
    (Len(structures) < 2 \/ MobileSites = {}) =>
        /\ pc # "done"
        /\ assigned \cap {"delta_t", "msd"} = {}

(* C6: after correct_for_drift, when there is a framework site, the framework
   sites' corrected displacements sum (so average) to zero at every frame on
   every axis, every site has lost the same vector at a frame, which is the
   framework's mean displacement there, and so the difference between any
   two sites' displacements at a frame is unchanged *)
C6_FrameworkDriftRemoved ==
    (Entered("correct_for_drift") /\ FrameworkSites # {}) =>
        /\ \A k \in Frames, x \in Axes :
              RSum([a \in 1..Len(drift_corrected) |->
                      IF a \in FrameworkSites
                      THEN drift_corrected[a][k][x] ELSE Zero]) = Zero
        /\ \A k \in Frames, x \in Axes : \A a \in Sites :
              RMul(RInt(Cardinality(FrameworkSites)),
                   RSub(disp[a][k][x], drift_corrected[a][k][x]))
                = RSum([b \in 1..Len(disp) |->
                          IF b \in FrameworkSites THEN disp[b][k][x] ELSE Zero])
        /\ \A k \in Frames : \A a \in Sites, b \in Sites :
              VSub(drift_corrected[a][k], drift_corrected[b][k])
                = VSub(disp[a][k], disp[b][k])

C6_Witness ==
    /\ Entered("correct_for_drift")
    /\ FrameworkSites # {}
    /\ MobileSites # {}
    /\ \E a \in FrameworkSites, b \in MobileSites, k \in Frames :
          /\ disp[a][k] # VZero
          /\ disp[b][k] # disp[a][k]
          /\ drift_corrected[b][k] # disp[b][k]

(* The sites in M have the same coordinates in every frame *)
Stationary(M) ==
    \A a \in M, k \in Frames :
        structures[k].frac_coords[a] = structures[1].frac_coords[a]

(* C8: when the mobile atoms are stationary and interval selection succeeds,
   the msd is 0 at every selected interval, whatever the number of framework
   atoms, none included.  (Stated for the trajectories of two or more frames
   in which no atom moves at all and every selected interval is >= 1; with no
   framework atom the code's drift is the mean of an empty slice, nan, and
   every msd is nan.) *)
C8_StationaryMsdZero ==
    (/\ pc = "done"
     /\ Len(structures) >= 2
     /\ Stationary(Sites)
     /\ \A i \in 1..Len(timesteps) : timesteps[i] >= 1) =>
        \A i \in 1..Len(msd) : msd[i] = Zero

(* The raw delta of site a between frame k and the frame before it (frame 0
   is compared with itself) *)
RawDelta(a, k, x) ==
    IF k = 1 THEN Zero
    ELSE RSub(structures[k].frac_coords[a][x], structures[k - 1].frac_coords[a][x])

Built == Entered("_get_structure_and_disp") /\ structures # <<>>

(* C9, as stated: every wrapped delta w = d - round(d) has -0.5 <= w < 0.5 *)
C9_WrappedHalfOpen ==
    Built =>
        LET W == d_coords(structures)
        IN  \A a \in Sites, k \in Frames, x \in Axes :
                /\ RLe(Rat(-1, 2), W[a][k][x])
                /\ RLt(W[a][k][x], Half)

(* C9, amended: every wrapped delta w has -0.5 <= w <= 0.5 and d - w is an
   integer; a half-integer d is rounded to the even neighbour, so w is +0.5
   for d = 0.5, 2.5, ... and -0.5 for d = -0.5, 1.5, ... *)
C9_WrappedClosed ==
    Built =>
        LET W == d_coords(structures)
        IN  \A a \in Sites, k \in Frames, x \in Axes :
                LET w == W[a][k][x]
                    r == RSub(RawDelta(a, k, x), w)
                IN  /\ RLe(Rat(-1, 2), w)
                    /\ RLe(w, Half)
                    /\ r.d = 1
                    /\ (w = Half \/ w = Rat(-1, 2)) => r.n % 2 = 0

C9_Witness ==
    /\ Built
    /\ LET W == d_coords(structures)
       IN  /\ \E a \in Sites, k \in Frames, x \in Axes :
                 RawDelta(a, k, x) = Half /\ W[a][k][x] = Half
           /\ \E a \in Sites, k \in Frames, x \in Axes :
                 RawDelta(a, k, x) = Rat(3, 2) /\ W[a][k][x] = Rat(-1, 2)

(* C10, as stated: when the first and last lattice matrices are equal, every
   frame's Cartesian displacement is the cumulative fractional displacement
   transformed with frame 0's matrix; otherwise with the frame's own *)
C10_ConstantLatticeUsesFrame0 ==
    Built =>
        LET F == f_disp(structures)
        IN  \A a \in Sites, k \in Frames :
                disp[a][k] =
                    np_dot(F[a][k],
                           IF structures[1].lattice = structures[Len(structures)].lattice
                           THEN structures[1].lattice
                           ELSE structures[k].lattice)

(* C10, amended: every frame's Cartesian displacement is the cumulative
   fractional displacement transformed with that frame's own lattice matrix,
   whether or not the first and last matrices are equal *)
C10_OwnLatticeAlways ==
    Built =>
        LET F == f_disp(structures)
        IN  \A a \in Sites, k \in Frames :
                disp[a][k] = np_dot(F[a][k], structures[k].lattice)

C10_Witness ==
    /\ Built
    /\ Len(structures) >= 3
    /\ structures[1].lattice = structures[Len(structures)].lattice
    /\ LET F == f_disp(structures)
       IN  \E a \in Sites, k \in Frames :
             /\ structures[k].lattice # structures[1].lattice
             /\ disp[a][k] # np_dot(F[a][k], structures[1].lattice)

-----------------------------------------------------------------------------
(* DiffAnalyzer.__init__ and MSDAnalyzer.__init__ (analyze.py), and
   DiffusionAnalyzer (diffusion_analyzer.py).

   analyze.py builds a PymatgenParser, which runs as parser.py has it, or an
   MDAnalysisParser, a class of kinisi.parser that parser.py does not hold:
   it follows the specification's Displacement Builder and Interval Sampler.
   The relationship object is kinisi.diffusion.Diffusion, whose fitting state
   follows the specification: UNFIT when created, MAX-LIKELIHOOD-FIT after
   max_likelihood, MCMC-SAMPLED after mcmc. *)

MaxIntervals == 3

DTypes == {"Xdatcar", "structures", "other"}

(* A dtype argument: the value of the string, and whether it is the very
   object of the literal that lines 39 / 42 compare it with by `is` (an
   interned literal is; a string put together at run time is not) *)
DTypeArgs == [value : DTypes, same_object : BOOLEAN]

DefaultBounds == <<<<0, 100>>, <<-10, 10>>>>

BoundsChoices == {DefaultBounds, <<<<0, 10>>, <<-1, 1>>>>}

(* The statements of DiffAnalyzer.__init__, in order *)
DiffSteps ==
    <<"parse", "bootstrap", "relationship", "msd", "max_likelihood", "mcmc",
      "D", "done">>

(* The statements of MSDAnalyzer.__init__, in order *)
MsdSteps == <<"parse", "bootstrap", "relationship", "msd", "done">>

StepsOf(kind) == IF kind = "DiffAnalyzer" THEN DiffSteps ELSE MsdSteps

(* The statement after statement st of the constructor of kind *)
After(kind, st) ==
    LET sq == StepsOf(kind)
        i == CHOOSE j \in 1..Len(sq) : sq[j] = st
    IN  sq[i + 1]

(* The parser class the dtype selects, lines 39-46 and 87-94: `dtype is
   'Xdatcar'` and `dtype is 'structures'` hold for the literal's own object
   only; every other string, an equal one included, takes the else branch *)
parser_for(dtype) ==
    IF dtype.same_object /\ dtype.value \in {"Xdatcar", "structures"}
    THEN "PymatgenParser"
    ELSE "MDAnalysisParser"

(* The attributes of an MDAnalysisParser that analyze.py reads, lines 48-49 *)
MDAnalysisParserAttrs == {"delta_t", "disp_3d"}

(* Diffusion(dt, msd_distributions, bounds): a new relationship is UNFIT *)
new_relationship == "UNFIT"

(* max_likelihood that goes on to sample the posterior itself *)
rel_max_likelihood_sampling(state) == "MCMC-SAMPLED"

(* Diffusion.max_likelihood: the relationship holds a point estimate *)
rel_max_likelihood(state) ==
    IF state = "MCMC-SAMPLED" THEN state ELSE "MAX-LIKELIHOOD-FIT"

(* Diffusion.mcmc: the relationship holds posterior samples *)
rel_mcmc(state) == "MCMC-SAMPLED"

(* The trajectories given to the analyzers: a Li site that hops and an O site
   that drifts, on lattice B *)
AnTrajectory(nf) ==
    MakeStructures(nf, <<"Li", "O">>,
                   <<[kind |-> "hop", v |-> <<-2, -1, 3>>],
                     [kind |-> "drift", v |-> <<1, 6, 10>>]>>,
                   [k \in 1..nf |-> LattB])

(* What the trajectory argument is: a list of structures, the path of an
   XDATCAR file that holds structures, a path that names no file, or the
   empty string *)
TrajectoryKinds == {"structures", "file", "missing", "empty"}

(* Xdatcar(trajectory), line 40 / 88: pymatgen's reader opens the file the
   argument names and holds its structures; an argument that is no path is a
   TypeError, a path that names no file (the empty string is one) a
   FileNotFoundError.  S is what the file holds *)
Xdatcar(trajectory, S) ==
    IF trajectory = "structures"
    THEN [raised |-> TRUE, structures |-> <<>>,
          err |-> "TypeError: expected str, bytes or os.PathLike object, not list"]
    ELSE IF trajectory \in {"missing", "empty"}
    THEN [raised |-> TRUE, structures |-> <<>>,
          err |-> "FileNotFoundError: No such file or directory"]
    ELSE [raised |-> FALSE, structures |-> S, err |-> ""]

(* An analyzer's constructor is entered with the trajectory argument (of kind
   tk; S is the list of structures, or what the file holds), params tp and
   the dtype and bounds arguments; no parser exists yet *)
AnStart(kind, tk, S, tp, dt, bd) ==
    /\ structures = S
    /\ specie = "Li"
    /\ time_step = tp[1]
    /\ step_skip = tp[2]
    /\ min_obs = 1
    /\ indices = <<>>
    /\ disp = <<>>
    /\ drift_corrected = <<>>
    /\ nsteps = 0
    /\ timesteps = <<>>
    /\ assigned = {}
    /\ delta_t = <<>>
    /\ msd = <<>>
    /\ sq_disp_store = <<>>
    /\ disp_store = <<>>
    /\ pc = "unbuilt"
    /\ err = ""
    /\ called = {}
    /\ an = [kind |-> kind, trajectory |-> tk, dtype |-> dt, bounds |-> bd,
             pc |-> IF kind = "DiffusionAnalyzer" THEN "construct" ELSE "parse",
             parser |-> "none", n |-> 0, attrs |-> {}, msd |-> "unset",
             rel |-> "absent", trail |-> <<>>, calls |-> <<>>, err |-> ""]

InitAnalyze ==
    \/ \E nf \in 0..MaxFrames, tk \in TrajectoryKinds, tp \in TimeParams,
          dt \in DTypeArgs :
          LET S == IF tk \in {"missing", "empty"} THEN <<>> ELSE AnTrajectory(nf)
          IN  \/ \E bd \in BoundsChoices :
                    AnStart("DiffAnalyzer", tk, S, tp, dt, bd)
              \/ AnStart("MSDAnalyzer", tk, S, tp, dt, DefaultBounds)
    \/ AnStart("DiffusionAnalyzer", "file", AnTrajectory(MaxFrames), <<500, 2>>,
               [value |-> "other", same_object |-> FALSE], DefaultBounds)

Inputs == <<structures, specie, time_step, step_skip, min_obs>>

ParserVars == <<structures, specie, time_step, step_skip, min_obs, indices,
                disp, drift_corrected, nsteps, timesteps, assigned, delta_t,
                msd, sq_disp_store, disp_store, pc, err, called>>

(* Line 40 / 88: xd = Xdatcar(trajectory) raises; the constructor ends before
   any parser is built *)
AnXdatcarRaises ==
    /\ an.pc = "parse"
    /\ parser_for(an.dtype) = "PymatgenParser"
    /\ an.dtype.value = "Xdatcar"
    /\ Xdatcar(an.trajectory, structures).raised
    /\ an' = [an EXCEPT !.pc = "failed",
                        !.err = Xdatcar(an.trajectory, structures).err]
    /\ UNCHANGED ParserVars

(* Lines 39-43 / 87-91: u = PymatgenParser(xd.structures, **params) or
   u = PymatgenParser(trajectory, **params), the whole of its __init__
   (parser.py lines 50-65); an exception of the parser's constructor leaves
   the analyzer's constructor.  On the 'structures' branch a trajectory that
   is a path reaches _get_structure_and_disp as a str: its characters have no
   frac_coords (line 172), and the empty string, like the empty list, has no
   coords[0] (line 174) *)
AnParsePymatgen ==
    /\ an.pc = "parse"
    /\ parser_for(an.dtype) = "PymatgenParser"
    /\ an.dtype.value = "Xdatcar" => ~Xdatcar(an.trajectory, structures).raised
    /\ IF an.dtype.value = "structures" /\ an.trajectory \in {"file", "missing"}
       THEN /\ called' = {"_get_structure_and_disp"}
            /\ pc' = "failed"
            /\ err' = "AttributeError: 'str' object has no attribute 'frac_coords'"
            /\ UNCHANGED <<indices, disp, drift_corrected, nsteps, timesteps,
                           delta_t, msd, sq_disp_store, disp_store>>
       ELSE IF structures = <<>>
       THEN /\ called' = {"_get_structure_and_disp"}
            /\ pc' = "failed"
            /\ err' = "IndexError: list index out of range"
            /\ UNCHANGED <<indices, disp, drift_corrected, nsteps, timesteps,
                           delta_t, msd, sq_disp_store, disp_store>>
       ELSE /\ disp' = get_structure_and_disp(structures)
            /\ indices' = mobile_indices(structures[1], specie)
            /\ drift_corrected' = correct_for_drift(structures[1], disp', specie)
            /\ nsteps' = NFrames(drift_corrected')
            /\ LET st == smoothed_timesteps(Len(indices'), time_step, step_skip,
                                            nsteps', min_obs)
               IN  IF st.raised
                   THEN /\ called' = {"_get_structure_and_disp",
                                      "correct_for_drift", "smoothed_timesteps"}
                        /\ pc' = "failed"
                        /\ err' = NotEnoughData
                        /\ UNCHANGED <<timesteps, delta_t, msd, sq_disp_store,
                                       disp_store>>
                   ELSE /\ called' = {"_get_structure_and_disp",
                                      "correct_for_drift", "smoothed_timesteps",
                                      "get_disps"}
                        /\ timesteps' = st.timesteps
                        /\ LET r == get_disps(timesteps', drift_corrected',
                                              indices', time_step, step_skip)
                           IN  /\ pc' = IF r.raised THEN "failed" ELSE "done"
                               /\ err' = IF r.raised
                                         THEN "ValueError: operands could not be broadcast together"
                                         ELSE err
                               /\ delta_t' = r.delta_t
                               /\ msd' = r.msd
                               /\ sq_disp_store' = r.sq_disp_store
                               /\ disp_store' = r.disp_store
    /\ assigned' = {"time_step", "step_skip", "indices"} \cup
                    (IF pc' = "done"
                     THEN {"delta_t", "msd", "sq_disp_store", "disp_store"}
                     ELSE {})
    /\ an' = IF pc' = "failed"
             THEN [an EXCEPT !.pc = "failed", !.parser = "PymatgenParser",
                             !.err = err']
             ELSE [an EXCEPT !.pc = After(an.kind, "parse"),
                             !.parser = "PymatgenParser", !.n = Len(delta_t')]
    /\ UNCHANGED Inputs

(* Lines 44-46 / 92-94: universe = mda.Universe of the trajectory,
   format=dtype; u = MDAnalysisParser(universe, ...).  MDAnalysisParser is a
   class of kinisi.parser that parser.py does not hold.  It follows the
   specification's Displacement Builder and Interval Sampler: it yields the
   displacement array and the intervals (the attributes disp_3d and delta_t
   that lines 48-49 read) for n intervals, or fails with ConfigurationError
   or with InsufficientDataError; the reader before it may raise as Xdatcar
   does *)
AnParseMDAnalysis ==
    /\ an.pc = "parse"
    /\ parser_for(an.dtype) = "MDAnalysisParser"
    /\ \/ \E n \in 1..MaxIntervals :
            /\ an' = [an EXCEPT !.pc = After(an.kind, "parse"),
                                !.parser = "MDAnalysisParser", !.n = n]
            /\ assigned' = MDAnalysisParserAttrs
            /\ pc' = "done"
            /\ err' = err
       \/ \E e \in {"ConfigurationError", "InsufficientDataError"} :
            /\ an' = [an EXCEPT !.pc = "failed",
                                !.parser = "MDAnalysisParser", !.err = e]
            /\ assigned' = assigned
            /\ pc' = "failed"
            /\ err' = e
       \/ /\ an' = [an EXCEPT !.pc = "failed",
                              !.err = "error raised by MDAnalysis.Universe"]
          /\ assigned' = assigned
          /\ pc' = pc
          /\ err' = err
    /\ UNCHANGED <<structures, specie, time_step, step_skip, min_obs, indices,
                   disp, drift_corrected, nsteps, timesteps, delta_t, msd,
                   sq_disp_store, disp_store, called>>

AnParse == AnXdatcarRaises \/ AnParsePymatgen \/ AnParseMDAnalysis

(* Lines 48-54 / 96-102: dt = u.delta_t; disp_3d = u.disp_3d; diff_data =
   diffusion.msd_bootstrap(dt, disp_3d); self.dt and self.msd_distributions
   are set.  A parser without the attribute disp_3d ends the constructor at
   line 49 / 97 with an AttributeError *)
AnBootstrap ==
    /\ an.pc = "bootstrap"
    /\ IF "disp_3d" \in assigned
       THEN an' = [an EXCEPT !.pc = After(an.kind, "bootstrap"),
                             !.attrs = @ \cup {"dt", "msd_distributions"}]
       ELSE an' = [an EXCEPT !.pc = "failed",
                             !.err = "AttributeError: no attribute 'disp_3d'"]
    /\ UNCHANGED ParserVars

(* Line 56 / 104: self.relationship = diffusion.Diffusion(self.dt,
   self.msd_distributions, bounds) *)
AnRelationship ==
    /\ an.pc = "relationship"
    /\ an' = [an EXCEPT !.pc = After(an.kind, "relationship"),
                        !.attrs = @ \cup {"relationship"},
                        !.rel = new_relationship,
                        !.trail = Append(@, new_relationship),
                        !.calls = Append(@, "Diffusion")]
    /\ UNCHANGED ParserVars

(* Lines 58-59 / 106-107: self.msd and self.msd_err from relationship.y *)
AnMsd ==
    /\ an.pc = "msd"
    /\ an' = [an EXCEPT !.pc = After(an.kind, "msd"),
                        !.attrs = @ \cup {"msd", "msd_err"},
                        !.msd = "set"]
    /\ UNCHANGED ParserVars

(* Line 61: self.relationship.max_likelihood('diff_evo'); the optimizer may
   fail to find a solution within the bounds *)
AnMaxLikelihood ==
    /\ an.pc = "max_likelihood"
    /\ \/ an' = [an EXCEPT !.pc = After(an.kind, "max_likelihood"),
                           !.rel = rel_max_likelihood(@),
                           !.trail = Append(@, rel_max_likelihood(an.rel)),
                           !.calls = Append(@, "max_likelihood")]
       \/ an' = [an EXCEPT !.pc = "failed",
                           !.calls = Append(@, "max_likelihood"),
                           !.err = "FitBoundsError"]
    /\ UNCHANGED ParserVars

(* Line 62: self.relationship.mcmc() *)
AnMcmc ==
    /\ an.pc = "mcmc"
    /\ an' = [an EXCEPT !.pc = After(an.kind, "mcmc"),
                        !.rel = rel_mcmc(@),
                        !.trail = Append(@, rel_mcmc(an.rel)),
                        !.calls = Append(@, "mcmc")]
    /\ UNCHANGED ParserVars

(* Lines 64-65: self.D = self.relationship.diffusion_coefficient;
   self.D_offset = self.relationship.variables[1] *)
AnReadD ==
    /\ an.pc = "D"
    /\ an' = [an EXCEPT !.pc = After(an.kind, "D"),
                        !.attrs = @ \cup {"D", "D_offset"},
                        !.calls = Append(@, "diffusion_coefficient")]
    /\ UNCHANGED ParserVars

(* DiffusionAnalyzer.__init__, diffusion_analyzer.py lines 26-28:
   super().__init__(trajectory); self.msd = None *)
DiffusionAnalyzerInit ==
    /\ an.kind = "DiffusionAnalyzer"
    /\ an.pc = "construct"
    /\ an' = [an EXCEPT !.pc = "ready", !.attrs = @ \cup {"msd"},
                        !.msd = "None"]
    /\ UNCHANGED ParserVars

(* DiffusionAnalyzer.from_Xdatcar, lines 70-72: p = super()._from_Xdatcar(...),
   which builds the parser and the analyzer (msd = None) or raises;
   p.msd = calculate_msd(p.trajectory, progress) *)
FromXdatcar ==
    /\ an.kind = "DiffusionAnalyzer"
    /\ an.pc = "construct"
    /\ \/ an' = [an EXCEPT !.pc = "ready", !.attrs = @ \cup {"msd"},
                           !.msd = "set", !.calls = <<"calculate_msd">>]
       \/ an' = [an EXCEPT !.pc = "failed",
                           !.err = "error raised by _from_Xdatcar"]
    /\ UNCHANGED ParserVars

(* Diffusion.diffusion(start_dt, **diffusion_params) on a relationship in
   state: the fit and then the sampling of the posterior *)
rel_diffusion(state) == rel_mcmc(rel_max_likelihood(state))

(* DiffusionAnalyzer.diffusion, lines 82-85: self.diff = Diffusion(self.msd);
   self.diff.diffusion(start_dt, **diffusion_params).  Each call makes a new
   relationship from msd alone and fits it in the same call; with msd = None
   there is nothing to fit and the call raises, before or after self.diff is
   set *)
DiffusionCall ==
    /\ an.kind = "DiffusionAnalyzer"
    /\ an.pc = "ready"
    /\ \/ /\ an.msd = "set"
          /\ an' = [an EXCEPT
                      !.attrs = @ \cup {"diff"},
                      !.rel = rel_diffusion(new_relationship),
                      !.trail = <<new_relationship,
                                  rel_max_likelihood(new_relationship),
                                  rel_diffusion(new_relationship)>>,
                      !.calls = <<"Diffusion", "diffusion">>]
       \/ /\ an.msd = "None"
          /\ an' = [an EXCEPT !.pc = "failed",
                              !.err = "error raised by Diffusion(None)"]
       \/ /\ an.msd = "None"
          /\ an' = [an EXCEPT !.pc = "failed",
                              !.attrs = @ \cup {"diff"},
                              !.rel = new_relationship,
                              !.trail = <<new_relationship>>,
                              !.calls = <<"Diffusion", "diffusion">>,
                              !.err = "error raised by Diffusion.diffusion"]
    /\ UNCHANGED ParserVars

NextAnalyze ==
    AnParse \/ AnBootstrap \/ AnRelationship \/ AnMsd \/ AnMaxLikelihood
        \/ AnMcmc \/ AnReadD \/ DiffusionAnalyzerInit \/ FromXdatcar
        \/ DiffusionCall

SpecAnalyze == InitAnalyze /\ [][NextAnalyze]_vars

IsPrefix(s, t) == Len(s) <= Len(t) /\ \A i \in 1..Len(s) : s[i] = t[i]

FitStates == <<"UNFIT", "MAX-LIKELIHOOD-FIT", "MCMC-SAMPLED">>

(* C7: in every execution of DiffAnalyzer and of MSDAnalyzer the relationship
   goes UNFIT -> MAX-LIKELIHOOD-FIT -> MCMC-SAMPLED with no state skipped; it
   is created only once the msd distributions are set; max_likelihood is
   called before mcmc and mcmc never on an unfitted relationship; D and
   D_offset are read only after mcmc; MSDAnalyzer leaves the relationship
   UNFIT and sets no D *)
C7_FitOrder ==
    /\ IsPrefix(an.trail, FitStates)
    /\ an.kind \in {"DiffAnalyzer", "MSDAnalyzer"} =>
          /\ an.rel # "absent" => "msd_distributions" \in an.attrs
          /\ IsPrefix(an.calls,
                      <<"Diffusion", "max_likelihood", "mcmc",
                        "diffusion_coefficient">>)
          /\ an.attrs \cap {"D", "D_offset"} # {} =>
                (an.rel = "MCMC-SAMPLED" /\ an.trail = FitStates)
    /\ an.kind = "MSDAnalyzer" =>
          /\ an.rel \in {"absent", "UNFIT"}
          /\ an.attrs \cap {"D", "D_offset"} = {}
    /\ (an.kind = "DiffAnalyzer" /\ an.pc = "done") =>
          (an.rel = "MCMC-SAMPLED" /\ "D" \in an.attrs)

C7_Witness ==
    /\ an.kind = "DiffAnalyzer"
    /\ an.pc = "done"
    /\ an.trail = FitStates
    /\ "D" \in an.attrs

-----------------------------------------------------------------------------
(* The squared norm of the change of site a's drift-corrected displacement
   from frame f to frame f + t (frames counted from 1) *)
SqNorm(a, f, t) ==
    RSum([x \in Axes |->
            LET d == RSub(drift_corrected[a][f + t][x], drift_corrected[a][f][x])
            IN  RMul(d, d)])

(* The population of interval i holds nsteps - timesteps[i] origins for each
   mobile site and for no other site, each entry the squared norm above *)
PopulationAsStated(i) ==
    LET t == timesteps[i]
    IN  /\ Len(sq_disp_store[i]) = Cardinality(MobileSites)
        /\ Len(indices) = Cardinality(MobileSites)
        /\ \A m \in 1..Len(indices) :
              /\ indices[m] + 1 \in MobileSites
              /\ Len(sq_disp_store[i][m]) = nsteps - t
              /\ \A f \in 1..(nsteps - t) :
                    sq_disp_store[i][m][f] = SqNorm(indices[m] + 1, f, t)

(* msd[i] is the sum of the whole population over its size *)
MsdIsPopulationMean(i) ==
    LET total == RSum([m \in 1..Len(sq_disp_store[i]) |-> RSum(sq_disp_store[i][m])])
        size == Len(indices) * (nsteps - timesteps[i])
    IN  msd[i] = (IF IsNaN(total) THEN NaN ELSE Rat(total.n, total.d * size))

(* C11: for each interval passed to get_disps, the squared-displacement
   population has exactly nsteps - interval origins per mobile atom, each
   entry the squared norm of disp[a][f + interval] - disp[a][f], and no
   framework atom; msd is the mean of that population; delta_t, msd,
   sq_disp_store and disp_store hold one entry per interval, in the order of
   the interval sequence.  (Stated as the claim has it; for the interval 0,
   which smoothed_timesteps returns when step_skip * time_step > 1000, the
   code's population is empty instead of holding nsteps origins.) *)
C11_PopulationPerInterval ==
    pc = "done" =>
        /\ Len(delta_t) = Len(timesteps)
        /\ Len(msd) = Len(timesteps)
        /\ Len(sq_disp_store) = Len(timesteps)
        /\ Len(disp_store) = Len(timesteps)
        /\ \A i \in 1..Len(timesteps) :
              /\ delta_t[i] = timesteps[i] * time_step * step_skip
              /\ PopulationAsStated(i)
              /\ MsdIsPopulationMean(i)

=============================================================================
